---- MODULE Spec2Model ----
(***************************************************************************)
(* accord: lease-based coordination of named resources.                    *)
(*                                                                         *)
(* The model covers the client library (ClientOptions.norm, the three      *)
(* constructors RPCClient, WrapClient and DialClient with the startup      *)
(* synchronisation fetchDone, client.Acquire, client.Close), the service   *)
(* adapter                                                                 *)
(* (service.Acquire/Renew/Done/List, convertHandle, expTime), and, taken   *)
(* from the written contract, the storage backend, the local completion    *)
(* cache with its write batch, and the Handle operations.                  *)
(*                                                                         *)
(* Time is counted in ticks of half a millisecond so that the conversion   *)
(* of an expiration to epoch-milliseconds in convertHandle truncates.      *)
(***************************************************************************)
EXTENDS Integers, Sequences, FiniteSets, TLC

VARIABLES
    now,        \* the server's clock, in ticks
    store,      \* backend records, a partial map <<namespace, name>> -> HandleData
    nextID,     \* number of the next identifier the backend generates
    pc,         \* per client: where the client is in its life cycle
    cache,      \* per client: names in the on-disk completion cache
    cacheOpen,  \* per client: whether the cache store is open
    wb,         \* per client: the write batch of the last construction
    base,       \* per client: cache contents when the last construction started
    net,        \* per party: the remote call in flight (request or response)
    stream,     \* per client: List records sent by the server, not yet received
    ret,        \* per client: what the last call of the client API returned
    handles,    \* per client: the Handles returned to the caller
    given,      \* per client: the caller's ClientOptions value
    opt,        \* per client: the client's own, normalized ClientOptions
    conn        \* per client: the network connection of the last construction

vars == <<now, store, nextID, pc, cache, cacheOpen, wb, base, net, stream,
          ret, handles, given, opt, conn>>

----------------------------------------------------------------------------
(* Bounds of the model.                                                    *)

MaxSeconds == 1      \* the clock advances at most this many seconds
MaxAcquired == 2     \* a record is (re-)acquired at most this many times
MaxStream == 3       \* records in flight on one List stream

(* Program constants.                                                      *)

UUIDLen == 16        \* uuid.FromBytes accepts exactly 16 bytes
MillisPerSec == 1000 \* convertHandle: Unix()*1000
TicksPerMs == 2      \* resolution of the clock below a millisecond
TicksPerSec == TicksPerMs * MillisPerSec
StartTick == 1       \* the clock starts off a millisecond boundary

(* Strings that must be compared by prefix (namespaces) are sequences of   *)
(* characters; owners and names are only compared for equality.            *)

HasPrefix(s, p) == Len(p) <= Len(s) /\ SubSeq(s, 1, Len(p)) = p

NsN == <<"n">>           \* the clients' namespace
NsNX == <<"n", "x">>     \* a namespace that has the clients' as prefix
NsM == <<"m">>           \* an unrelated namespace

----------------------------------------------------------------------------
(* Identifiers.  A uuid.UUID is an array of 16 bytes; the n-th identifier  *)
(* the backend generates is modelled by the bytes 0,...,0,n.               *)

UUID(n) == [i \in 1..UUIDLen |-> IF i = UUIDLen THEN n ELSE 0]

Bytes(n, len) == [i \in 1..len |-> IF i = len THEN n ELSE 0]

\* uuid.FromBytes: an error unless the slice holds exactly 16 bytes
FromBytesOK(b) == Len(b) = UUIDLen

NilHandle == [nil |-> TRUE]
NoData == [nil |-> TRUE]

----------------------------------------------------------------------------
(* Storage backend, from its contract.  Every operation is atomic and      *)
(* returns [err, data, store].  fail models a storage failure.             *)

IsDone(rec) == rec.Done

IsLive(rec, t) == ~rec.Done /\ rec.ExpTime > t

backendAcquire(st, t, id, owner, ns, name, exp, meta, fail) ==
    LET k == <<ns, name>> IN
    IF fail THEN [err |-> "ErrStorage", data |-> NoData, store |-> st]
    ELSE IF k \notin DOMAIN st THEN
        LET rec == [ID |-> id, Name |-> name, Namespace |-> ns, Owner |-> owner,
                    ExpTime |-> exp, NumAcquired |-> 1, Metadata |-> meta,
                    Done |-> FALSE]
        IN [err |-> "nil", data |-> rec,
            store |-> [x \in DOMAIN st \cup {k} |-> IF x = k THEN rec ELSE st[x]]]
    ELSE IF IsDone(st[k]) THEN [err |-> "ErrDone", data |-> NoData, store |-> st]
    ELSE IF IsLive(st[k], t) THEN [err |-> "ErrAcquired", data |-> NoData, store |-> st]
    ELSE
        LET rec == [st[k] EXCEPT !.Owner = owner, !.ExpTime = exp,
                                 !.NumAcquired = @ + 1, !.Metadata = meta]
        IN [err |-> "nil", data |-> rec, store |-> [st EXCEPT ![k] = rec]]

\* the record a handle identifier and owner name, when it is live
Owned(st, t, owner, id) ==
    {k \in DOMAIN st : st[k].ID = id /\ st[k].Owner = owner /\ IsLive(st[k], t)}

backendRenew(st, t, owner, id, exp, meta, fail) ==
    IF fail THEN [err |-> "ErrStorage", store |-> st]
    ELSE IF Owned(st, t, owner, id) = {} THEN [err |-> "ErrInvalidHandle", store |-> st]
    ELSE LET k == CHOOSE x \in Owned(st, t, owner, id) : TRUE IN
         [err |-> "nil",
          store |-> [st EXCEPT ![k].ExpTime = exp, ![k].Metadata = meta]]

backendDone(st, t, owner, id, meta, fail) ==
    IF fail THEN [err |-> "ErrStorage", store |-> st]
    ELSE IF Owned(st, t, owner, id) = {} THEN [err |-> "ErrInvalidHandle", store |-> st]
    ELSE LET k == CHOOSE x \in Owned(st, t, owner, id) : TRUE IN
         [err |-> "nil",
          store |-> [st EXCEPT ![k].Done = TRUE, ![k].Metadata = meta]]

\* backend.List: the records matching the filter, in key order (a stable order)
KeyOrder == <<<<NsM, "x">>, <<NsN, "x">>, <<NsN, "y">>, <<NsNX, "x">>, <<NsNX, "y">>>>

RECURSIVE listFrom(_, _, _)
listFrom(st, filter, i) ==
    IF i > Len(KeyOrder) THEN <<>>
    ELSE LET k == KeyOrder[i] IN
         IF /\ k \in DOMAIN st
            /\ HasPrefix(st[k].Namespace, filter.Prefix)
            /\ (filter.Status = "DONE" => st[k].Done)
         THEN <<st[k]>> \o listFrom(st, filter, i + 1)
         ELSE listFrom(st, filter, i + 1)

backendList(st, filter) == listFrom(st, filter, 1)

----------------------------------------------------------------------------
(* Service adapter (internal/service/service.go).                          *)

\* faulty variant: the ttl is taken as the expiration itself
expTime_noClock(t, ttl) == ttl * TicksPerSec

\* expTime: the server's clock plus ttl whole seconds
expTime(t, ttl) == t + ttl * TicksPerSec

\* faulty variant: the identifier is cut short
convertHandle_shortId(data) ==
    [Id |-> SubSeq(data.ID, 1, UUIDLen - 1),
     Name |-> data.Name,
     Namespace |-> data.Namespace,
     ExpTime |-> (data.ExpTime \div TicksPerSec) * MillisPerSec
                 + (data.ExpTime % TicksPerSec) \div TicksPerMs,
     NumAcquired |-> data.NumAcquired,
     Metadata |-> data.Metadata]

\* convertHandle: expiration as epoch milliseconds, the rest copied
\* (NumAcquired stays below MaxAcquired, far from the 32 bits it is cut to)
convertHandle(data) ==
    [Id |-> data.ID,
     Name |-> data.Name,
     Namespace |-> data.Namespace,
     ExpTime |-> (data.ExpTime \div TicksPerSec) * MillisPerSec
                 + (data.ExpTime % TicksPerSec) \div TicksPerMs,
     NumAcquired |-> data.NumAcquired,
     Metadata |-> data.Metadata]

\* faulty variant: the name is not validated
svcAcquireInvalid_noName(req) == IF req.Owner = "" THEN "invalid owner" ELSE ""

\* service.Acquire, lines 26-31: "" when the request passes validation
svcAcquireInvalid(req) ==
    IF req.Owner = "" THEN "invalid owner"
    ELSE IF req.Name = "" THEN "invalid name"
    ELSE ""

\* service.Acquire, lines 34-45: the response for a backend outcome
\* faulty variant: the two sentinel outcomes are taken for one another
svcAcquireReply_swapped(r) ==
    IF r.err = "ErrAcquired" THEN [err |-> "nil", Status |-> "DONE", Handle |-> NilHandle]
    ELSE IF r.err = "ErrDone"
        THEN [err |-> "nil", Status |-> "HELD", Handle |-> NilHandle]
    ELSE IF r.err # "nil" THEN [err |-> r.err, Status |-> "", Handle |-> NilHandle]
    ELSE [err |-> "nil", Status |-> "OK", Handle |-> convertHandle(r.data)]

\* faulty variant: "already held" is not told apart from a backend failure
svcAcquireReply_noHeld(r) ==
    IF r.err = "ErrDone" THEN [err |-> "nil", Status |-> "DONE", Handle |-> NilHandle]
    ELSE IF r.err # "nil" THEN [err |-> r.err, Status |-> "", Handle |-> NilHandle]
    ELSE [err |-> "nil", Status |-> "OK", Handle |-> convertHandle(r.data)]

svcAcquireReply(r) ==
    IF r.err = "ErrDone" THEN [err |-> "nil", Status |-> "DONE", Handle |-> NilHandle]
    ELSE IF r.err = "ErrAcquired"
        THEN [err |-> "nil", Status |-> "HELD", Handle |-> NilHandle]
    ELSE IF r.err # "nil" THEN [err |-> r.err, Status |-> "", Handle |-> NilHandle]
    ELSE [err |-> "nil", Status |-> "OK", Handle |-> convertHandle(r.data)]

\* service.Acquire: [resp, store, called]; called tells whether the backend was invoked
svcAcquire(st, t, id, req, fail) ==
    IF svcAcquireInvalid(req) # ""
    THEN [resp |-> [err |-> "InvalidArgument", Status |-> "", Handle |-> NilHandle],
          store |-> st, called |-> FALSE, out |-> "none"]
    ELSE LET r == backendAcquire(st, t, id, req.Owner, req.Namespace, req.Name,
                                 expTime(t, req.Ttl), req.Metadata, fail)
         IN [resp |-> svcAcquireReply(r), store |-> r.store, called |-> TRUE,
             out |-> r.err]

\* faulty variant: the owner is not validated
svcHandleInvalid_noOwner(req) ==
    IF ~FromBytesOK(req.HandleId) THEN "invalid handle ID" ELSE ""

\* service.Renew / service.Done, lines 50-57 and 67-74: validation
svcHandleInvalid(req) ==
    IF req.Owner = "" THEN "invalid owner"
    ELSE IF ~FromBytesOK(req.HandleId) THEN "invalid handle ID"
    ELSE ""

\* faulty variant: the backend's error is dropped
svcHandleReply_swallow(r) == [err |-> "nil"]

\* service.Renew / service.Done, lines 59-62 and 76-79: the backend's error
\* is returned as it is, an empty response otherwise
svcHandleReply(r) == [err |-> r.err]

\* service.Renew
svcRenew(st, t, req, fail) ==
    IF svcHandleInvalid(req) # ""
    THEN [resp |-> [err |-> "InvalidArgument"], store |-> st, called |-> FALSE,
          out |-> "none"]
    ELSE LET r == backendRenew(st, t, req.Owner, req.HandleId, expTime(t, req.Ttl),
                               req.Metadata, fail)
         IN [resp |-> svcHandleReply(r), store |-> r.store, called |-> TRUE,
             out |-> r.err]

\* service.Done
svcDone(st, t, req, fail) ==
    IF svcHandleInvalid(req) # ""
    THEN [resp |-> [err |-> "InvalidArgument"], store |-> st, called |-> FALSE,
          out |-> "none"]
    ELSE LET r == backendDone(st, t, req.Owner, req.HandleId, req.Metadata, fail)
         IN [resp |-> svcHandleReply(r), store |-> r.store, called |-> TRUE,
             out |-> r.err]

----------------------------------------------------------------------------
(* Client configuration (ClientOptions).                                   *)

Clients == {"c1", "c2"}

Wire == "w"      \* another party on the network, sending requests of its own
Parties == Clients \cup {Wire}

Second == TicksPerSec

(* A time.Duration is a 64-bit count that reaches beyond 2^32 seconds.  It  *)
(* is written in two parts: hi counts multiples of 2^32 seconds, lo is the  *)
(* rest in ticks (negative only for a negative duration, with hi = 0).  A   *)
(* whole number of seconds is written the same way, lo in seconds.          *)

Dur(hi, lo) == [hi |-> hi, lo |-> lo]

\* d < time.Second
DurLessSecond(d) == d.hi < 0 \/ (d.hi = 0 /\ d.lo < Second)

\* d / time.Second, the integer division
DurSeconds(d) == [hi |-> d.hi, lo |-> d.lo \div Second]

\* uint32(n): n modulo 2^32, which for n = hi * 2^32 + lo is lo
Uint32(n) == n.lo

TenMinutes == Dur(0, 600 * Second)

\* a missing configuration (a nil pointer) and the zero value of ClientOptions
NilOpt == [nil |-> TRUE]
ZeroOpt == [Owner |-> "", Namespace |-> <<>>, TTL |-> Dur(0, 0), Dir |-> ""]

\* the options each client is constructed with
GivenOpt(c) ==
    IF c = "c1"
    THEN [Owner |-> "A", Namespace |-> NsN, TTL |-> Dur(0, 1 * Second), Dir |-> "d1"]
    ELSE [Owner |-> "", Namespace |-> NsN, TTL |-> Dur(0, 2 * Second + 1), Dir |-> ""]

\* uuid.New().String(): a fresh, non-empty identity
NewOwner(c) == IF c = "c1" THEN "uuid-c1" ELSE "uuid-c2"

\* faulty variant: the defaults are written into the caller's value
norm_inPlace(o, fresh) ==
    LET p == IF o = NilOpt THEN ZeroOpt ELSE o
        q == [Owner |-> IF p.Owner = "" THEN fresh ELSE p.Owner,
              Namespace |-> p.Namespace,
              TTL |-> IF DurLessSecond(p.TTL) THEN TenMinutes ELSE p.TTL,
              Dir |-> IF p.Dir = "" THEN "data" ELSE p.Dir]
    IN [o |-> IF o = NilOpt THEN o ELSE q, p |-> q]

\* ClientOptions.norm on the value o points to: [o, p], the caller's value
\* after the call and the copy that is returned
norm(o, fresh) ==
    LET p == IF o = NilOpt THEN ZeroOpt ELSE o IN
    [o |-> o,
     p |-> [Owner |-> IF p.Owner = "" THEN fresh ELSE p.Owner,
            Namespace |-> p.Namespace,
            TTL |-> IF DurLessSecond(p.TTL) THEN TenMinutes ELSE p.TTL,
            Dir |-> IF p.Dir = "" THEN "data" ELSE p.Dir]]

\* ClientOptions.ttlSeconds
ttlSeconds(o) == Uint32(DurSeconds(o.TTL))

\* the client's field opt
Opt(c) == opt[c]

----------------------------------------------------------------------------
(* The network connection.  A client is made from a protocol client         *)
(* (RPCClient), from a connection of the caller's (WrapClient) or by        *)
(* dialing (DialClient).                                                    *)

Hows == {"rpc", "wrap", "dial"}

(* conn[c] tells how the client was made (how), whether it owns the        *)
(* connection (own, the field ownCC), how often Close was called on the     *)
(* connection (closes), and, of the client's last Close, what it called     *)
(* Close on (tried) and which of those calls failed (failed).               *)

NoConn == [how |-> "none", own |-> FALSE, closes |-> 0, tried |-> {}, failed |-> {}]

\* the connection a construction starts with: not owned, never closed
NewConn(how) == [how |-> how, own |-> FALSE, closes |-> 0, tried |-> {}, failed |-> {}]

\* DialClient, lines 100-104: how often the constructor closes the
\* connection when the construction fails
dialClose(how) == IF how = "dial" THEN 1 ELSE 0

\* faulty variant: every client owns its connection
dialOwns_any(how) == TRUE

\* DialClient, line 106: whether the client returned owns the connection
dialOwns(how) == how = "dial"

\* the construction failed after the connection was there
ConnFailed(cn) == [cn EXCEPT !.closes = @ + dialClose(cn.how)]

\* the construction succeeded
ConnReady(cn) == [cn EXCEPT !.own = dialOwns(cn.how)]

----------------------------------------------------------------------------
(* Local completion cache and its write batch, from their contract.  A     *)
(* cache is the set of names present; a batch stages names and commits     *)
(* them in one step.                                                       *)

cacheContains(names, name) == name \in names

cacheAdd(names, name) == names \cup {name}

NoBatch == [staged |-> {}, flushed |-> FALSE, discarded |-> TRUE]

cacheAddBatch == [staged |-> {}, flushed |-> FALSE, discarded |-> FALSE]

wbAdd(b, name) == [b EXCEPT !.staged = @ \cup {name}]

\* Flush: [names, batch]; a batch already discarded commits nothing
wbFlush(names, b) ==
    IF b.discarded \/ b.flushed THEN [names |-> names, batch |-> b]
    ELSE [names |-> names \cup b.staged, batch |-> [b EXCEPT !.flushed = TRUE]]

\* Discard: abandons what is staged and not committed; safe after Flush
wbDiscard(names, b) == [names |-> names, batch |-> [b EXCEPT !.discarded = TRUE]]

----------------------------------------------------------------------------
(* Inputs.                                                                 *)

Idle == [kind |-> "none"]

NoRet == [op |-> "", name |-> "", err |-> "nil", handle |-> NilHandle]

AcquireNames == {"x"}      \* names callers pass to Client.Acquire
ClientMetas == {"m"}

\* requests a third party puts on the wire
WireAcquires ==
    [Owner : {"", "Z"}, Name : {"", "x"}, Namespace : {NsN, NsNX}, Ttl : {0, 1},
     Metadata : {"w"}]

WireHandleIds == {UUID(1), UUID(2), Bytes(1, UUIDLen - 1), Bytes(1, UUIDLen + 1), <<>>}

WireRenews ==
    [Owner : {"", "A", "Z"}, HandleId : WireHandleIds, Ttl : {1}, Metadata : {"w"}]

WireDones == [Owner : {"", "A", "Z"}, HandleId : WireHandleIds, Metadata : {"w"}]

TransportErr == [err |-> "ErrTransport", Status |-> "", Handle |-> NilHandle]

----------------------------------------------------------------------------
(* Client construction: RPCClient and fetchDone.                           *)

\* faulty variant: the List request does not filter by status
fetchDoneRequest_all(o) == [Filter |-> [Prefix |-> o.Namespace, Status |-> "ANY"]]

\* fetchDone, lines 162-167: the List request
fetchDoneRequest(o) == [Filter |-> [Prefix |-> o.Namespace, Status |-> "DONE"]]

\* faulty variant: every streamed record is staged
fetchDoneKeep_any(handle, o) == TRUE

\* fetchDone, line 186: which streamed records are staged
fetchDoneKeep(handle, o) == handle.Namespace = o.Namespace

\* faulty variant: the name is inserted into the cache as it is received
fetchDoneStage_direct(names, b, name) ==
    [names |-> cacheAdd(names, name), batch |-> wbAdd(b, name)]

\* fetchDone, line 187: staging a name; [names, batch]
fetchDoneStage(names, b, name) == [names |-> names, batch |-> wbAdd(b, name)]

\* fetchDone, lines 176 and 192: Flush, then the deferred Discard; [names, batch, err]
fetchDoneCommit(names, b, flushFail) ==
    LET f == IF flushFail THEN [names |-> names, batch |-> b] ELSE wbFlush(names, b)
        d == wbDiscard(f.names, f.batch)
    IN [names |-> d.names, batch |-> d.batch,
        err |-> IF flushFail THEN "ErrFlush" ELSE "nil"]

\* faulty variant: the cache is left open
closeOnError_leak(open) == open

\* RPCClient, lines 82-85: on an error of fetchDone the cache is closed;
\* the result tells whether the cache is still open
closeOnError(open) == FALSE

\* fetchDone returns an error after the batch was opened: the deferred
\* Discard runs, then RPCClient closes the cache and returns no client
Abort(c, err) ==
    LET d == wbDiscard(cache[c], wb[c]) IN
    /\ cache' = [cache EXCEPT ![c] = d.names]
    /\ wb' = [wb EXCEPT ![c] = d.batch]
    /\ cacheOpen' = [cacheOpen EXCEPT ![c] = closeOnError(TRUE)]
    /\ conn' = [conn EXCEPT ![c] = ConnFailed(@)]
    /\ pc' = [pc EXCEPT ![c] = "closed"]
    /\ net' = [net EXCEPT ![c] = Idle]
    /\ stream' = [stream EXCEPT ![c] = <<>>]
    /\ ret' = [ret EXCEPT ![c] = [op |-> "RPCClient", name |-> "", err |-> err,
                                  handle |-> NilHandle]]

\* DialClient, lines 96-99: dialing fails; no connection, no client (ret
\* names every constructor by the one they all end in)
DialFails(c) ==
    /\ pc[c] = "closed"
    /\ net[c] = Idle
    /\ ret' = [ret EXCEPT ![c] = [op |-> "RPCClient", name |-> "",
                                  err |-> "ErrDial", handle |-> NilHandle]]
    /\ conn' = [conn EXCEPT ![c] = NoConn]
    /\ base' = [base EXCEPT ![c] = cache[c]]
    /\ UNCHANGED <<now, store, nextID, pc, cache, cacheOpen, wb, net, stream,
                   handles, given, opt>>

\* a constructor up to the first Recv: RPCClient (reached from WrapClient
\* and DialClient too) normalizes the options, opens the cache, calls List
\* and opens the batch
Construct(c, how, openFail, listFail, batchFail) ==
    /\ pc[c] = "closed"
    /\ net[c] = Idle
    /\ UNCHANGED <<now, store, nextID, cache, handles, stream>>
    /\ LET r == norm(given[c], NewOwner(c)) IN
          /\ given' = [given EXCEPT ![c] = r.o]
          /\ opt' = [opt EXCEPT ![c] = r.p]
    /\ IF openFail \/ listFail \/ batchFail
       THEN /\ ret' = [ret EXCEPT ![c] =
                        [op |-> "RPCClient", name |-> "",
                         err |-> IF openFail THEN "ErrOpen"
                                 ELSE IF listFail THEN "ErrList"
                                 ELSE "ErrAddBatch",
                         handle |-> NilHandle]]
            /\ cacheOpen' = [cacheOpen EXCEPT ![c] =
                               IF openFail THEN FALSE ELSE closeOnError(TRUE)]
            /\ conn' = [conn EXCEPT ![c] = ConnFailed(NewConn(how))]
            /\ base' = [base EXCEPT ![c] = cache[c]]
            /\ UNCHANGED <<pc, wb, net>>
       ELSE /\ pc' = [pc EXCEPT ![c] = "recv"]
            /\ conn' = [conn EXCEPT ![c] = NewConn(how)]
            /\ cacheOpen' = [cacheOpen EXCEPT ![c] = TRUE]
            /\ wb' = [wb EXCEPT ![c] = cacheAddBatch]
            /\ base' = [base EXCEPT ![c] = cache[c]]
            /\ net' = [net EXCEPT ![c] =
                        [kind |-> "list", req |-> fetchDoneRequest(opt'[c])]]
            /\ ret' = [ret EXCEPT ![c] = NoRet]

\* service.List starts: the backend begins to enumerate the matching records
ServeList(c) ==
    /\ net[c].kind = "list"
    /\ net' = [net EXCEPT ![c] =
                [kind |-> "listing", req |-> net[c].req,
                 todo |-> backendList(store, net[c].req.Filter)]]
    /\ UNCHANGED <<now, store, nextID, pc, cache, cacheOpen, wb, base, stream,
                   ret, handles,
                   given, opt, conn>>

\* faulty variant: the records are sent last first
svcListSend_last(todo) ==
    [send |-> convertHandle(todo[Len(todo)]), rest |-> SubSeq(todo, 1, Len(todo) - 1)]

\* service.List, lines 84-86: the callback is invoked with the next record
\* of the backend's enumeration and sends it; [send, rest]
svcListSend(todo) == [send |-> convertHandle(Head(todo)), rest |-> Tail(todo)]

\* service.List, the callback: one record is converted and sent
ServeListSend(c) ==
    /\ net[c].kind = "listing"
    /\ net[c].todo # <<>>
    /\ Len(stream[c]) < MaxStream
    /\ LET r == svcListSend(net[c].todo) IN
       /\ stream' = [stream EXCEPT ![c] = Append(@, r.send)]
       /\ net' = [net EXCEPT ![c].todo = r.rest]
    /\ UNCHANGED <<now, store, nextID, pc, cache, cacheOpen, wb, base, ret,
                   handles,
                   given, opt, conn>>

\* service.List returns: nil after the last record, or the error of the
\* backend or of a failed Send
ServeListEnd(c, fail) ==
    /\ net[c].kind = "listing"
    /\ ~fail => net[c].todo = <<>>
    /\ net' = [net EXCEPT ![c] = [kind |-> IF fail THEN "listerr" ELSE "eof"]]
    /\ UNCHANGED <<now, store, nextID, pc, cache, cacheOpen, wb, base, stream,
                   ret, handles,
                   given, opt, conn>>

\* fetchDone, one round of the loop: Recv returns a record
Recv(c, addFail) ==
    /\ pc[c] = "recv"
    /\ stream[c] # <<>>
    /\ UNCHANGED <<now, store, nextID, base, handles, given, opt>>
    /\ LET handle == Head(stream[c]) IN
       IF fetchDoneKeep(handle, Opt(c))
       THEN IF addFail
            THEN Abort(c, "ErrStage")
            ELSE LET r == fetchDoneStage(cache[c], wb[c], handle.Name) IN
                 /\ cache' = [cache EXCEPT ![c] = r.names]
                 /\ wb' = [wb EXCEPT ![c] = r.batch]
                 /\ stream' = [stream EXCEPT ![c] = Tail(@)]
                 /\ UNCHANGED <<pc, cacheOpen, net, ret, conn>>
       ELSE /\ stream' = [stream EXCEPT ![c] = Tail(@)]
            /\ UNCHANGED <<pc, cache, cacheOpen, wb, net, ret, conn>>

\* fetchDone: Recv returns io.EOF; the batch is flushed and RPCClient returns
RecvEOF(c, flushFail) ==
    /\ pc[c] = "recv"
    /\ stream[c] = <<>>
    /\ net[c].kind = "eof"
    /\ UNCHANGED <<now, store, nextID, base, handles, given, opt>>
    /\ LET r == fetchDoneCommit(cache[c], wb[c], flushFail) IN
       /\ cache' = [cache EXCEPT ![c] = r.names]
       /\ wb' = [wb EXCEPT ![c] = r.batch]
       /\ net' = [net EXCEPT ![c] = Idle]
       /\ stream' = [stream EXCEPT ![c] = <<>>]
       /\ cacheOpen' = [cacheOpen EXCEPT ![c] =
                          IF r.err = "nil" THEN TRUE ELSE closeOnError(TRUE)]
       /\ conn' = [conn EXCEPT ![c] =
                     IF r.err = "nil" THEN ConnReady(@) ELSE ConnFailed(@)]
       /\ pc' = [pc EXCEPT ![c] = IF r.err = "nil" THEN "ready" ELSE "closed"]
       /\ ret' = [ret EXCEPT ![c] = [op |-> "RPCClient", name |-> "", err |-> r.err,
                                     handle |-> NilHandle]]

\* fetchDone: Recv returns an error, because the server ended the stream with
\* one or because the call was cancelled or the transport failed
RecvErr(c, cancelled) ==
    /\ pc[c] = "recv"
    /\ ~cancelled => (stream[c] = <<>> /\ net[c].kind = "listerr")
    /\ UNCHANGED <<now, store, nextID, base, handles, given, opt>>
    /\ Abort(c, IF cancelled THEN "ErrRecv" ELSE "ErrStorage")

----------------------------------------------------------------------------
(* Client.Acquire and Client.Close.                                        *)

\* client.Acquire, lines 120-126: the request
acquireRequest(o, name, meta) ==
    [Owner |-> o.Owner, Name |-> name, Namespace |-> o.Namespace,
     Ttl |-> ttlSeconds(o), Metadata |-> meta]

\* faulty variant: a DONE response is reported as "already held"
acquireResult_doneAsHeld(res, name, addFail) ==
    IF res.err # "nil" THEN [err |-> res.err, handle |-> NilHandle, add |-> FALSE]
    ELSE IF res.Status \in {"HELD", "DONE"}
        THEN [err |-> "ErrAcquired", handle |-> NilHandle, add |-> FALSE]
    ELSE [err |-> "nil",
          handle |-> [Id |-> res.Handle.Id, Metadata |-> res.Handle.Metadata,
                      Name |-> name, Exp |-> res.Handle.ExpTime, Done |-> FALSE],
          add |-> FALSE]

\* faulty variant: a DONE response is not recorded in the cache
acquireResult_noAdd(res, name, addFail) ==
    IF res.err # "nil" THEN [err |-> res.err, handle |-> NilHandle, add |-> FALSE]
    ELSE IF res.Status = "HELD"
        THEN [err |-> "ErrAcquired", handle |-> NilHandle, add |-> FALSE]
    ELSE IF res.Status = "DONE"
        THEN [err |-> "ErrDone", handle |-> NilHandle, add |-> FALSE]
    ELSE [err |-> "nil",
          handle |-> [Id |-> res.Handle.Id, Metadata |-> res.Handle.Metadata,
                      Name |-> name, Exp |-> res.Handle.ExpTime, Done |-> FALSE],
          add |-> FALSE]

\* faulty variant: a HELD response is recorded in the cache too
acquireResult_addOnHeld(res, name, addFail) ==
    IF res.err # "nil" THEN [err |-> res.err, handle |-> NilHandle, add |-> FALSE]
    ELSE IF res.Status = "HELD"
        THEN [err |-> "ErrAcquired", handle |-> NilHandle, add |-> TRUE]
    ELSE IF res.Status = "DONE"
        THEN IF addFail THEN [err |-> "ErrAdd", handle |-> NilHandle, add |-> FALSE]
             ELSE [err |-> "ErrDone", handle |-> NilHandle, add |-> TRUE]
    ELSE IF res.Handle = NilHandle \/ ~FromBytesOK(res.Handle.Id)
        THEN [err |-> "panic", handle |-> NilHandle, add |-> FALSE]
    ELSE [err |-> "nil",
          handle |-> [Id |-> res.Handle.Id, Metadata |-> res.Handle.Metadata,
                      Name |-> name, Exp |-> res.Handle.ExpTime, Done |-> FALSE],
          add |-> FALSE]

\* client.Acquire, lines 127-143: what is returned for a response;
\* [err, handle, add]: add tells whether the name goes to the cache.  A
\* Handle holds the identifier and the metadata; the model also notes on it
\* the name, the expiration granted (epoch milliseconds) and whether its
\* holder has completed it.
acquireResult(res, name, addFail) ==
    IF res.err # "nil" THEN [err |-> res.err, handle |-> NilHandle, add |-> FALSE]
    ELSE IF res.Status = "HELD"
        THEN [err |-> "ErrAcquired", handle |-> NilHandle, add |-> FALSE]
    ELSE IF res.Status = "DONE"
        THEN IF addFail THEN [err |-> "ErrAdd", handle |-> NilHandle, add |-> FALSE]
             ELSE [err |-> "ErrDone", handle |-> NilHandle, add |-> TRUE]
    ELSE IF res.Handle = NilHandle \/ ~FromBytesOK(res.Handle.Id)
        THEN [err |-> "panic", handle |-> NilHandle, add |-> FALSE]
    ELSE [err |-> "nil",
          handle |-> [Id |-> res.Handle.Id, Metadata |-> res.Handle.Metadata,
                      Name |-> name, Exp |-> res.Handle.ExpTime, Done |-> FALSE],
          add |-> FALSE]

\* faulty variant: the cache is not consulted
acquireCached_never(names, name, readFail) == ""

\* client.Acquire, lines 113-117: "" when the remote call is to be made
acquireCached(names, name, readFail) ==
    IF readFail THEN "ErrContains"
    ELSE IF cacheContains(names, name) THEN "ErrDone"
    ELSE ""

\* whether the resource is completed at the backend
Completed(ns, name) == <<ns, name>> \in DOMAIN store /\ store[<<ns, name>>].Done

\* client.Acquire up to the remote call: the cache is consulted first.  The
\* request is marked late when the resource was completed before the call.
ClientAcquire(c, name, meta, readFail) ==
    /\ pc[c] = "ready"
    /\ net[c] = Idle
    /\ UNCHANGED <<now, store, nextID, pc, cache, cacheOpen, wb, base, stream,
                   handles,
                   given, opt, conn>>
    /\ LET early == acquireCached(cache[c], name, readFail) IN
       IF early # ""
       THEN /\ ret' = [ret EXCEPT ![c] = [op |-> "Acquire", name |-> name,
                                          err |-> early, handle |-> NilHandle]]
            /\ UNCHANGED net
       ELSE /\ net' = [net EXCEPT ![c] =
                        [kind |-> "acquire",
                         req |-> acquireRequest(Opt(c), name, meta),
                         late |-> Completed(Opt(c).Namespace, name)]]
            /\ ret' = [ret EXCEPT ![c] = NoRet]

\* the server handles the Acquire request of party p
ServeAcquire(p, fail) ==
    /\ net[p].kind = "acquire"
    /\ LET r == svcAcquire(store, now, UUID(nextID), net[p].req, fail) IN
       /\ r.resp.Handle # NilHandle => r.resp.Handle.NumAcquired <= MaxAcquired
       /\ store' = r.store
       /\ nextID' = IF DOMAIN r.store # DOMAIN store THEN nextID + 1 ELSE nextID
       /\ net' = [net EXCEPT ![p] = [kind |-> "acquired", req |-> net[p].req,
                                     late |-> net[p].late, res |-> r.resp,
                                     called |-> r.called, out |-> r.out]]
    /\ UNCHANGED <<now, pc, cache, cacheOpen, wb, base, stream, ret, handles,
                   given, opt, conn>>

\* the remote call of client c fails (transport failure, deadline or
\* cancellation), before or after the server handled it
CallFails(c) ==
    /\ net[c].kind \in {"acquire", "acquired", "renew", "renewed", "done", "doned"}
    /\ net[c].kind \in {"acquired", "renewed", "doned"} => net[c].res.err # "ErrTransport"
    /\ net' = [net EXCEPT ![c] =
                [kind |-> IF net[c].kind \in {"acquire", "acquired"} THEN "acquired"
                          ELSE IF net[c].kind \in {"renew", "renewed"} THEN "renewed"
                          ELSE "doned",
                 req |-> net[c].req, late |-> net[c].late, res |-> TransportErr,
                 called |-> FALSE, out |-> "none"]]
    /\ UNCHANGED <<now, store, nextID, pc, cache, cacheOpen, wb, base, stream,
                   ret, handles,
                   given, opt, conn>>

\* client.Acquire from the response on
ClientAcquired(c, addFail) ==
    /\ c \in Clients
    /\ net[c].kind = "acquired"
    /\ LET name == net[c].req.Name
           r == acquireResult(net[c].res, name, addFail)
       IN
       /\ ret' = [ret EXCEPT ![c] = [op |-> "Acquire", name |-> name,
                                     err |-> r.err, handle |-> r.handle]]
       /\ cache' = [cache EXCEPT ![c] = IF r.add THEN cacheAdd(@, name) ELSE @]
       /\ handles' = [handles EXCEPT ![c] =
                       IF r.handle # NilHandle THEN @ \cup {r.handle} ELSE @]
    /\ net' = [net EXCEPT ![c] = Idle]
    /\ UNCHANGED <<now, store, nextID, pc, cacheOpen, wb, base, stream,
                   given, opt, conn>>

\* faulty variant: Close returns at the first failure
clientClose_stopOnError(own, closeFail, ccFail) ==
    IF closeFail
    THEN [err |-> "ErrClose", tried |-> {"cache"}, failed |-> {"cache"}, ccCloses |-> 0]
    ELSE [err |-> IF own /\ ccFail THEN "ErrConnClose" ELSE "nil",
          tried |-> IF own THEN {"cache", "cc"} ELSE {"cache"},
          failed |-> IF own /\ ccFail THEN {"cc"} ELSE {},
          ccCloses |-> IF own THEN 1 ELSE 0]

\* client.Close, lines 147-158, for a client that has a cache: the error
\* returned (err), what Close was called on (tried), which of these calls
\* failed (failed), how often the connection's Close was called (ccCloses)
clientClose(own, closeFail, ccFail) ==
    LET e1 == IF closeFail THEN "ErrClose" ELSE "nil"
        e2 == IF own /\ ccFail THEN "ErrConnClose" ELSE e1
    IN [err |-> e2,
        tried |-> IF own THEN {"cache", "cc"} ELSE {"cache"},
        failed |-> (IF closeFail THEN {"cache"} ELSE {})
                   \cup (IF own /\ ccFail THEN {"cc"} ELSE {}),
        ccCloses |-> IF own THEN 1 ELSE 0]

\* client.Close
ClientClose(c, closeFail, ccFail) ==
    /\ pc[c] = "ready"
    /\ net[c] = Idle
    /\ pc' = [pc EXCEPT ![c] = "closed"]
    /\ cacheOpen' = [cacheOpen EXCEPT ![c] = FALSE]
    /\ LET r == clientClose(conn[c].own, closeFail, ccFail) IN
       /\ ret' = [ret EXCEPT ![c] = [op |-> "Close", name |-> "", err |-> r.err,
                                     handle |-> NilHandle]]
       /\ conn' = [conn EXCEPT ![c] = [@ EXCEPT !.tried = r.tried,
                                                 !.failed = r.failed,
                                                 !.closes = @ + r.ccCloses]]
    /\ UNCHANGED <<now, store, nextID, cache, wb, base, net, stream, handles,
                   given, opt>>

----------------------------------------------------------------------------
(* Handle.Renew and Handle.Done, from their contract: one remote call      *)
(* with the Handle's identifier and the client's owner.  Handles are used  *)
(* while their client is open.                                             *)

HandleRenew(c, h, meta) ==
    /\ net[c] = Idle
    /\ pc[c] = "ready"
    /\ h \in handles[c]
    /\ net' = [net EXCEPT ![c] =
                [kind |-> "renew",
                 req |-> [Owner |-> Opt(c).Owner, HandleId |-> h.Id,
                          Ttl |-> ttlSeconds(Opt(c)), Metadata |-> meta],
                 late |-> FALSE]]
    /\ ret' = [ret EXCEPT ![c] = NoRet]
    /\ UNCHANGED <<now, store, nextID, pc, cache, cacheOpen, wb, base, stream,
                   handles,
                   given, opt, conn>>

HandleDone(c, h, meta) ==
    /\ net[c] = Idle
    /\ pc[c] = "ready"
    /\ h \in handles[c]
    /\ net' = [net EXCEPT ![c] =
                [kind |-> "done",
                 req |-> [Owner |-> Opt(c).Owner, HandleId |-> h.Id,
                          Metadata |-> meta],
                 late |-> FALSE]]
    /\ ret' = [ret EXCEPT ![c] = NoRet]
    /\ UNCHANGED <<now, store, nextID, pc, cache, cacheOpen, wb, base, stream,
                   handles,
                   given, opt, conn>>

\* the server handles the Renew request of party p
ServeRenew(p, fail) ==
    /\ net[p].kind = "renew"
    /\ LET r == svcRenew(store, now, net[p].req, fail) IN
       /\ store' = r.store
       /\ net' = [net EXCEPT ![p] = [kind |-> "renewed", req |-> net[p].req,
                                     late |-> FALSE, res |-> r.resp,
                                     called |-> r.called, out |-> r.out,
                                     exp |-> expTime(now, net[p].req.Ttl)]]
    /\ UNCHANGED <<now, nextID, pc, cache, cacheOpen, wb, base, stream, ret, handles,
                   given, opt, conn>>

\* the server handles the Done request of party p
ServeDone(p, fail) ==
    /\ net[p].kind = "done"
    /\ LET r == svcDone(store, now, net[p].req, fail) IN
       /\ store' = r.store
       /\ net' = [net EXCEPT ![p] = [kind |-> "doned", req |-> net[p].req,
                                     late |-> FALSE, res |-> r.resp,
                                     called |-> r.called, out |-> r.out]]
    /\ UNCHANGED <<now, nextID, pc, cache, cacheOpen, wb, base, stream, ret, handles,
                   given, opt, conn>>

\* Handle.Renew / Handle.Done return the outcome of the call.  The model's
\* notes on the Handle follow: a renewed Handle expires ttl seconds after the
\* server handled the call, a completed one is marked.
HandleReturns(c) ==
    /\ c \in Clients
    /\ net[c].kind \in {"renewed", "doned"}
    /\ ret' = [ret EXCEPT ![c] =
                [op |-> IF net[c].kind = "renewed" THEN "Renew" ELSE "Done",
                 name |-> "", err |-> net[c].res.err, handle |-> NilHandle]]
    /\ handles' = [handles EXCEPT ![c] =
         IF net[c].res.err # "nil" THEN @
         ELSE {IF h.Id # net[c].req.HandleId THEN h
               ELSE IF net[c].kind = "doned" THEN [h EXCEPT !.Done = TRUE]
               ELSE [h EXCEPT !.Exp = net[c].exp \div TicksPerMs] : h \in @}]
    /\ net' = [net EXCEPT ![c] = Idle]
    /\ UNCHANGED <<now, store, nextID, pc, cache, cacheOpen, wb, base, stream,
                   given, opt, conn>>

----------------------------------------------------------------------------------------------------------------------------------------
(* The other party puts a request of its own on the wire, taking the       *)
(* response to its previous one.                                           *)

WireSend(kind, req) ==
    /\ net[Wire].kind \in {"none", "acquired", "renewed", "doned"}
    /\ net' = [net EXCEPT ![Wire] = [kind |-> kind, req |-> req, late |-> FALSE]]
    /\ UNCHANGED <<now, store, nextID, pc, cache, cacheOpen, wb, base, stream, ret,
                   handles,
                   given, opt, conn>>

\* a second passes on the server's clock
Tick ==
    /\ now + Second <= StartTick + MaxSeconds * Second
    /\ now' = now + Second
    /\ UNCHANGED <<store, nextID, pc, cache, cacheOpen, wb, base, net, stream,
                   ret, handles, given, opt, conn>>

----------------------------------------------------------------------------
Init ==
    /\ now = StartTick
    /\ store = <<>>
    /\ nextID = 1
    /\ pc = [c \in Clients |-> "closed"]
    /\ cache = [c \in Clients |-> {}]
    /\ cacheOpen = [c \in Clients |-> FALSE]
    /\ wb = [c \in Clients |-> NoBatch]
    /\ base = [c \in Clients |-> {}]
    /\ net = [p \in Parties |-> Idle]
    /\ stream = [c \in Clients |-> <<>>]
    /\ ret = [c \in Clients |-> NoRet]
    /\ handles = [c \in Clients |-> {}]
    /\ given = [c \in Clients |-> GivenOpt(c)]
    /\ opt = [c \in Clients |-> NilOpt]
    /\ conn = [c \in Clients |-> NoConn]


\* the clients, the server and the clock; the failures of construction are
\* left to SpecSync
Next ==
    \/ Tick
    \/ \E c \in Clients : Construct(c, "rpc", FALSE, FALSE, FALSE)
    \/ \E c \in Clients : ServeList(c)
    \/ \E c \in Clients : ServeListSend(c)
    \/ \E c \in Clients : ServeListEnd(c, FALSE)
    \/ \E c \in Clients : Recv(c, FALSE)
    \/ \E c \in Clients : RecvEOF(c, FALSE)
    \/ \E c \in Clients, n \in AcquireNames, m \in ClientMetas, f \in BOOLEAN :
          ClientAcquire(c, n, m, f)
    \/ \E c \in Clients, f \in BOOLEAN : ServeAcquire(c, f)
    \/ \E c \in Clients : CallFails(c)
    \/ \E c \in Clients, f \in BOOLEAN : ClientAcquired(c, f)
    \/ \E c \in Clients : ClientClose(c, FALSE, FALSE)
    \/ \E c \in Clients, m \in ClientMetas : \E h \in handles[c] : HandleRenew(c, h, m)
    \/ \E c \in Clients, m \in ClientMetas : \E h \in handles[c] : HandleDone(c, h, m)
    \/ \E c \in Clients, f \in BOOLEAN : ServeRenew(c, f)
    \/ \E c \in Clients, f \in BOOLEAN : ServeDone(c, f)
    \/ \E c \in Clients : HandleReturns(c)

Spec == Init /\ [][Next]_vars

\* the service adapter under the requests of any party
NextWire ==
    \/ Tick
    \/ \E req \in WireAcquires : WireSend("acquire", req)
    \/ \E req \in WireRenews : WireSend("renew", req)
    \/ \E req \in WireDones : WireSend("done", req)
    \/ \E f \in BOOLEAN : ServeAcquire(Wire, f)
    \/ \E f \in BOOLEAN : ServeRenew(Wire, f)
    \/ \E f \in BOOLEAN : ServeDone(Wire, f)

SpecWire == Init /\ [][NextWire]_vars

\* the backend's records before a client starts: any subset of the keys,
\* each record held by some other owner, some of them completed
SeededRecord(i, done) ==
    [ID |-> UUID(i), Name |-> KeyOrder[i][2], Namespace |-> KeyOrder[i][1],
     Owner |-> "Z", ExpTime |-> expTime(StartTick, 1), NumAcquired |-> 1,
     Metadata |-> "w", Done |-> done]

InitSync ==
    /\ now = StartTick
    /\ \E S \in SUBSET (1..Len(KeyOrder)) : \E D \in SUBSET S :
          store = [k \in {KeyOrder[i] : i \in S} |->
                     LET i == CHOOSE j \in S : KeyOrder[j] = k
                     IN SeededRecord(i, i \in D)]
    /\ nextID = Len(KeyOrder) + 1
    /\ pc = [c \in Clients |-> "closed"]
    /\ cache = [c \in Clients |-> {}]
    /\ cacheOpen = [c \in Clients |-> FALSE]
    /\ wb = [c \in Clients |-> NoBatch]
    /\ base = [c \in Clients |-> {}]
    /\ net = [p \in Parties |-> Idle]
    /\ stream = [c \in Clients |-> <<>>]
    /\ ret = [c \in Clients |-> NoRet]
    /\ handles = [c \in Clients |-> {}]
    /\ given = [c \in Clients |-> GivenOpt(c)]
    /\ opt = [c \in Clients |-> NilOpt]
    /\ conn = [c \in Clients |-> NoConn]

\* construction of one client, with every failure, against those records
NextSync ==
    \/ DialFails("c1")
    \/ \E how \in Hows, f1, f2, f3 \in BOOLEAN : Construct("c1", how, f1, f2, f3)
    \/ ServeList("c1")
    \/ ServeListSend("c1")
    \/ \E f \in BOOLEAN : ServeListEnd("c1", f)
    \/ \E f \in BOOLEAN : Recv("c1", f)
    \/ \E f \in BOOLEAN : RecvEOF("c1", f)
    \/ \E f \in BOOLEAN : RecvErr("c1", f)
    \/ \E f1, f2 \in BOOLEAN : ClientClose("c1", f1, f2)

SpecSync == InitSync /\ [][NextSync]_vars

\* the configurations a caller may pass: a missing one, and every
\* combination of given and missing fields, the TTL below, at and above one
\* second, and at and above 2^32 seconds
NormTTLs ==
    {Dur(0, -1), Dur(0, 0), Dur(0, Second - 1), Dur(0, Second),
     Dur(0, 2 * Second + 1), Dur(1, 0), Dur(1, Second)}

NormInputs ==
    {NilOpt} \cup [Owner : {"", "A"}, Namespace : {<<>>, NsN}, TTL : NormTTLs,
                   Dir : {"", "d1"}]

InitNorm ==
    /\ now = StartTick
    /\ store = <<>>
    /\ nextID = 1
    /\ pc = [c \in Clients |-> "closed"]
    /\ cache = [c \in Clients |-> {}]
    /\ cacheOpen = [c \in Clients |-> FALSE]
    /\ wb = [c \in Clients |-> NoBatch]
    /\ base = [c \in Clients |-> {}]
    /\ net = [p \in Parties |-> Idle]
    /\ stream = [c \in Clients |-> <<>>]
    /\ ret = [c \in Clients |-> NoRet]
    /\ handles = [c \in Clients |-> {}]
    /\ \E o \in NormInputs : given = [c \in Clients |-> IF c = "c1" THEN o ELSE GivenOpt(c)]
    /\ opt = [c \in Clients |-> NilOpt]
    /\ conn = [c \in Clients |-> NoConn]

\* one client constructed with any configuration, its Acquire calls and Close
NextNorm ==
    \/ Tick
    \/ Construct("c1", "rpc", FALSE, FALSE, FALSE)
    \/ ServeList("c1")
    \/ ServeListEnd("c1", FALSE)
    \/ RecvEOF("c1", FALSE)
    \/ \E n \in AcquireNames, m \in ClientMetas, f \in BOOLEAN :
          ClientAcquire("c1", n, m, f)
    \/ \E f \in BOOLEAN : ServeAcquire("c1", f)
    \/ CallFails("c1")
    \/ \E f \in BOOLEAN : ClientAcquired("c1", f)
    \/ ClientClose("c1", FALSE, FALSE)

SpecNorm == InitNorm /\ [][NextNorm]_vars

----------------------------------------------------------------------------
(* Properties of the service adapter, checked under SpecWire.              *)

\* C7: service.Acquire answers a request whose owner or name is empty with
\* InvalidArgument, without invoking the backend and without any change of
\* the backend's records, whatever the namespace, ttl and metadata are.
C7_AcquireRejectsEmpty ==
    [][(/\ net[Wire].kind = "acquire"
        /\ (net[Wire].req.Owner = "" \/ net[Wire].req.Name = "")
        /\ net'[Wire] # net[Wire])
       => (/\ net'[Wire].kind = "acquired"
           /\ net'[Wire].req = net[Wire].req
           /\ net'[Wire].res.err = "InvalidArgument"
           /\ net'[Wire].res.Handle = NilHandle
           /\ ~net'[Wire].called
           /\ store' = store
           /\ nextID' = nextID)]_vars

\* an Acquire with an owner and no name was rejected while the backend held a record
C7_Witness ==
    /\ net[Wire].kind = "acquired"
    /\ net[Wire].req.Owner = "Z"
    /\ net[Wire].req.Name = ""
    /\ net[Wire].res.err = "InvalidArgument"
    /\ DOMAIN store # {}

\* C8: service.Renew and service.Done answer a request whose owner is empty
\* or whose handle identifier is not exactly 16 bytes long with
\* InvalidArgument, without invoking the backend and without any change of
\* the backend's records.
C8_HandleOpsRejectMalformed ==
    [][(/\ net[Wire].kind \in {"renew", "done"}
        /\ (net[Wire].req.Owner = "" \/ Len(net[Wire].req.HandleId) # UUIDLen)
        /\ net'[Wire] # net[Wire])
       => (/\ net'[Wire].kind = (IF net[Wire].kind = "renew" THEN "renewed" ELSE "doned")
           /\ net'[Wire].req = net[Wire].req
           /\ net'[Wire].res.err = "InvalidArgument"
           /\ ~net'[Wire].called
           /\ store' = store
           /\ nextID' = nextID)]_vars

\* a Done that names an existing record's owner with an identifier one byte
\* short, and a live record it could have completed, was rejected
C8_Witness ==
    /\ net[Wire].kind = "doned"
    /\ net[Wire].req.Owner = "Z"
    /\ Len(net[Wire].req.HandleId) = UUIDLen - 1
    /\ net[Wire].res.err = "InvalidArgument"
    /\ \E k \in DOMAIN store : store[k].Owner = "Z" /\ IsLive(store[k], now)

\* C9: for a valid Acquire request the response follows the backend's
\* outcome: "already held" gives HELD and "already done" gives DONE, both
\* without handle and without error; success gives OK with the handle of the
\* record the backend returned, field by field, the expiration in epoch
\* milliseconds; a handle is present exactly when the status is OK.
C9_AcquireResponse ==
    LET m == net[Wire] IN
    m.kind = "acquired" =>
      /\ (m.res.Handle # NilHandle) <=> (m.res.err = "nil" /\ m.res.Status = "OK")
      /\ m.called =>
          LET k == <<m.req.Namespace, m.req.Name>> IN
          /\ m.out = "ErrAcquired" =>
                m.res = [err |-> "nil", Status |-> "HELD", Handle |-> NilHandle]
          /\ m.out = "ErrDone" =>
                m.res = [err |-> "nil", Status |-> "DONE", Handle |-> NilHandle]
          /\ m.out = "nil" =>
                /\ m.res.err = "nil"
                /\ m.res.Status = "OK"
                /\ k \in DOMAIN store
                /\ m.res.Handle =
                     [Id |-> store[k].ID, Name |-> m.req.Name,
                      Namespace |-> m.req.Namespace,
                      ExpTime |-> store[k].ExpTime \div TicksPerMs,
                      NumAcquired |-> store[k].NumAcquired,
                      Metadata |-> store[k].Metadata]
                /\ Len(m.res.Handle.Id) = UUIDLen
                /\ store[k].Owner = m.req.Owner
          /\ m.res.Status = "OK" => m.out = "nil"
          /\ m.res.Status = "HELD" => m.out = "ErrAcquired"
          /\ m.res.Status = "DONE" => m.out = "ErrDone"

\* a record was acquired again after it expired, and the response carries it
C9_Witness ==
    /\ net[Wire].kind = "acquired"
    /\ net[Wire].res.Status = "OK"
    /\ net[Wire].res.Handle.NumAcquired = 2
    /\ net[Wire].res.Handle.ExpTime = (now + Second) \div TicksPerMs

----------------------------------------------------------------------------
(* Properties of client construction, checked under SpecSync, where the    *)
(* backend's records do not change.                                        *)

\* the names of the records completed in a namespace
DoneNames(ns) ==
    {store[k].Name : k \in {x \in DOMAIN store : store[x].Done /\ store[x].Namespace = ns}}

\* C4: a constructed client's cache holds exactly the names of the records
\* that are DONE in the client's own namespace: none is missing, and no name
\* of a record that is not DONE, or that is DONE in another namespace (also
\* one that has the client's namespace as prefix), is present.
C4_CacheIsDoneSet ==
    \A c \in Clients : pc[c] = "ready" => cache[c] = DoneNames(Opt(c).Namespace)

\* a client is constructed with one of two names in its cache, the other
\* name being DONE only in a namespace that extends the client's
C4_Witness ==
    /\ pc["c1"] = "ready"
    /\ cache["c1"] = {"x"}
    /\ <<NsNX, "y">> \in DOMAIN store /\ store[<<NsNX, "y">>].Done
    /\ <<NsN, "y">> \in DOMAIN store /\ ~store[<<NsN, "y">>].Done

\* C5: a construction that fails at any step (opening the cache, the List
\* call, opening the batch, receiving a record, staging a name, the flush,
\* or a cancellation) returns an error and no client, leaves the cache closed
\* and its contents as they were when the construction started; and a client
\* is only returned after the stream ended normally and the flush succeeded.
C5_FailedConstruction ==
    /\ [](\A c \in Clients :
            /\ (ret[c].op = "RPCClient" /\ ret[c].err # "nil") =>
                  /\ pc[c] = "closed"
                  /\ ~cacheOpen[c]
                  /\ cache[c] = base[c]
                  /\ net[c] = Idle
            /\ pc[c] = "ready" => (cacheOpen[c] /\ wb[c].flushed))
    /\ [][\A c \in Clients :
            /\ (pc[c] = "recv" /\ pc'[c] = "closed") =>
                  (ret'[c].op = "RPCClient" /\ ret'[c].err # "nil")
            /\ (pc[c] = "closed" /\ ret'[c] # ret[c] /\ pc'[c] = "closed") =>
                  (ret'[c].op = "RPCClient" /\ ret'[c].err # "nil")
            /\ (pc[c] = "recv" /\ pc'[c] = "ready") =>
                  /\ stream[c] = <<>>
                  /\ net[c].kind = "eof"
                  /\ ret'[c] = [op |-> "RPCClient", name |-> "", err |-> "nil",
                                handle |-> NilHandle]]_vars

\* staging the second name failed after the first was staged: the first is
\* not in the cache
C5_Witness ==
    /\ ret["c1"].op = "RPCClient"
    /\ ret["c1"].err = "ErrStage"
    /\ "x" \in wb["c1"].staged
    /\ "x" \notin cache["c1"]

\* C6: until its batch is flushed the cache shows none of the staged names
\* (its contents are those at the start); a batch discarded without a flush
\* leaves them so; the flush makes all staged names present in one step; and
\* the Discard that follows the Flush removes none of them.
C6_BatchAtomic ==
    /\ [](\A c \in Clients :
            /\ ~wb[c].flushed => cache[c] = base[c]
            /\ wb[c].flushed => (wb[c].discarded /\ cache[c] = base[c] \cup wb[c].staged))
    /\ [][\A c \in Clients :
            cache'[c] # cache[c] =>
               /\ ~wb[c].flushed
               /\ wb'[c].flushed
               /\ cache'[c] = cache[c] \cup wb[c].staged]_vars

\* two names became present together, by a batch flushed and then discarded
C6_Witness ==
    /\ wb["c1"].flushed
    /\ wb["c1"].discarded
    /\ wb["c1"].staged = {"x", "y"}
    /\ base["c1"] = {}
    /\ cache["c1"] = {"x", "y"}

----------------------------------------------------------------------------
(* Properties of the whole system, checked under Spec.                     *)

\* a Handle is live while its holder has not completed it and the
\* expiration the server granted has not passed
LiveHandle(h) == ~h.Done /\ now < h.Exp * TicksPerMs

\* C1: under any interleaving of the owners' Acquire calls for one
\* (namespace, name), the service answers OK exactly when no live lease and
\* no completion exists, and the grant makes the lease live; while it is live
\* every attempt is answered HELD, once the resource is completed every
\* attempt is answered DONE, neither changing the record; and never do two
\* Handles of one (namespace, name) exist that are both live.
C1_OneOwner ==
    /\ [](\A c, d \in Clients : \A h \in handles[c], g \in handles[d] :
            (<<c, h>> # <<d, g>> /\ h.Name = g.Name
             /\ Opt(c).Namespace = Opt(d).Namespace)
            => ~(LiveHandle(h) /\ LiveHandle(g)))
    /\ [][\A c \in Clients :
            (net[c].kind = "acquire" /\ net'[c].kind = "acquired" /\ net'[c].called)
            => LET k == <<net[c].req.Namespace, net[c].req.Name>>
                   done == k \in DOMAIN store /\ store[k].Done
                   held == k \in DOMAIN store /\ IsLive(store[k], now)
                   res == net'[c].res
               IN IF net'[c].out = "ErrStorage"
                  THEN res.err = "ErrStorage" /\ store' = store
                  ELSE /\ res.err = "nil"
                       /\ res.Status = (IF done THEN "DONE" ELSE IF held THEN "HELD"
                                        ELSE "OK")
                       /\ (done \/ held) => store' = store
                       /\ res.Status = "OK" =>
                            /\ k \in DOMAIN store'
                            /\ store'[k].Owner = net[c].req.Owner
                            /\ IsLive(store'[k], now)
                            /\ res.Handle.Id = store'[k].ID]_vars

\* two owners' attempts were in flight together; one was answered OK, the
\* other HELD
C1_Witness ==
    /\ net["c1"].kind = "acquired" /\ net["c2"].kind = "acquired"
    /\ net["c1"].req.Name = net["c2"].req.Name
    /\ net["c1"].res.Status = "HELD"
    /\ net["c2"].res.Status = "OK"

\* errors of the cache and of the remote call, returned as they are
CallErrors == {"ErrTransport", "ErrStorage", "ErrAdd", "ErrContains"}

\* C2: an Acquire that a client starts after the resource was completed
\* never returns a Handle nor "already held": it returns ErrDone, from the
\* cache or from the DONE response, unless the cache or the remote call
\* fails, and then it returns that failure.  This holds for every owner,
\* the one that completed the resource included, also for a client
\* constructed anew after a Close.
C2_DoneIsFinal ==
    [][\A c \in Clients :
         /\ (net[c].kind = "acquired" /\ net'[c] = Idle /\ net[c].late) =>
               /\ ret'[c].op = "Acquire"
               /\ ret'[c].handle = NilHandle
               /\ ret'[c].err \in {"ErrDone"} \cup CallErrors
               /\ net[c].res.err = "nil" =>
                     (net[c].res.Status = "DONE" /\ ret'[c].err \in {"ErrDone", "ErrAdd"})
               /\ handles'[c] = handles[c]
         /\ (pc[c] = "ready" /\ net[c] = Idle /\ ret'[c] # ret[c]
             /\ ret'[c].op = "Acquire"
             /\ Completed(Opt(c).Namespace, ret'[c].name)) =>
               /\ ret'[c].handle = NilHandle
               /\ ret'[c].err \in {"ErrDone", "ErrContains"}
               /\ handles'[c] = handles[c]]_vars

\* the owner that completed the resource closed its client, constructed a new
\* one, whose startup loaded the name, and its Acquire returned ErrDone
C2_Witness ==
    /\ \E h \in handles["c1"] : h.Done /\ h.Name = "x"
    /\ "x" \in wb["c1"].staged
    /\ pc["c1"] = "ready"
    /\ ret["c1"] = [op |-> "Acquire", name |-> "x", err |-> "ErrDone",
                    handle |-> NilHandle]

\* C3: an Acquire of a name that is in the cache makes no remote call: no
\* request is put on the wire and nothing changes at the backend; it
\* returns ErrDone at once (or the error of the cache read).
C3_CacheHit ==
    [][\A c \in Clients :
         (pc[c] = "ready" /\ net[c] = Idle) =>
            /\ (net'[c] # Idle /\ net'[c].kind = "acquire") =>
                  net'[c].req.Name \notin cache[c]
            /\ (ret'[c] # ret[c] /\ ret'[c].op = "Acquire"
                /\ ret'[c].name \in cache[c]) =>
                  /\ ret'[c].err \in {"ErrDone", "ErrContains"}
                  /\ ret'[c].handle = NilHandle
                  /\ net' = net
                  /\ store' = store
                  /\ cache' = cache]_vars

\* a client whose startup loaded the name returned ErrDone for it while the
\* other client's request for the same name was still on the wire
C3_Witness ==
    /\ "x" \in base["c2"]
    /\ ret["c2"] = [op |-> "Acquire", name |-> "x", err |-> "ErrDone",
                    handle |-> NilHandle]
    /\ net["c2"] = Idle
    /\ net["c1"].kind = "acquire"

\* C10: for a name that is not in the cache, Acquire returns, on a HELD
\* response, ErrAcquired; on a DONE response, ErrDone with the name added to
\* the cache (or the error of the insertion, the cache unchanged); a
\* Handle exactly when the response is OK, and then the Handle carries the
\* identifier and metadata of the response; an error of the call is returned
\* as it is.
C10_AcquireOutcome ==
    [][\A c \in Clients :
         (net[c].kind = "acquired" /\ net'[c] = Idle) =>
            LET res == net[c].res
                name == net[c].req.Name
                r == ret'[c]
            IN /\ name \notin cache[c]
               /\ r.op = "Acquire" /\ r.name = name
               /\ res.err # "nil" => (r.err = res.err /\ cache' = cache)
               /\ (res.err = "nil" /\ res.Status = "HELD") =>
                     (r.err = "ErrAcquired" /\ cache' = cache)
               /\ (res.err = "nil" /\ res.Status = "DONE") =>
                     \/ r.err = "ErrDone" /\ cache' = [cache EXCEPT ![c] = @ \cup {name}]
                     \/ r.err = "ErrAdd" /\ cache' = cache
               /\ (r.handle # NilHandle) <=> (res.err = "nil" /\ res.Status = "OK")
               /\ r.handle # NilHandle =>
                     /\ r.err = "nil"
                     /\ r.handle.Id = res.Handle.Id
                     /\ r.handle.Metadata = res.Handle.Metadata
                     /\ r.handle \in handles'[c]
                     /\ cache' = cache
               /\ r.handle = NilHandle => handles' = handles]_vars

\* a client learnt from a DONE response, not from its startup, that the
\* name is completed, and recorded it
C10_Witness ==
    /\ ret["c2"] = [op |-> "Acquire", name |-> "x", err |-> "ErrDone",
                    handle |-> NilHandle]
    /\ "x" \in cache["c2"]
    /\ "x" \notin base["c2"] \cup wb["c2"].staged

\* C11: once a client is constructed, its cache changes only in the step in
\* which Acquire has received a response with status DONE, and then by
\* exactly the requested name; an Acquire that returns the error of the
\* cache read, the error of the call (transport failure or cancellation, also
\* when the server had already answered DONE), ErrAcquired, the error of the
\* insertion, or a Handle leaves every cache as it was.
C11_CacheOnlyOnDone ==
    [][\A c \in Clients :
         pc[c] = "ready" =>
            /\ cache'[c] # cache[c] =>
                  /\ net[c].kind = "acquired"
                  /\ net[c].res.err = "nil"
                  /\ net[c].res.Status = "DONE"
                  /\ cache'[c] = cache[c] \cup {net[c].req.Name}
                  /\ ret'[c] = [op |-> "Acquire", name |-> net[c].req.Name,
                                err |-> "ErrDone", handle |-> NilHandle]
            /\ (ret'[c] # ret[c] /\ ret'[c].op = "Acquire"
                /\ (ret'[c].err \in CallErrors \cup {"ErrAcquired"}
                    \/ ret'[c].handle # NilHandle)) =>
                  cache' = cache]_vars

\* an Acquire was cancelled while the resource was completed at the backend:
\* the name did not enter the cache
C11_Witness ==
    /\ pc["c1"] = "ready"
    /\ ret["c1"] = [op |-> "Acquire", name |-> "x", err |-> "ErrTransport",
                    handle |-> NilHandle]
    /\ Completed(NsN, "x")
    /\ cache["c1"] = {}

----------------------------------------------------------------------------
(* Properties of Close and of the connection, checked under SpecSync,      *)
(* where clients are made by all three constructors.                       *)

\* C12: Close always calls the cache's Close and, exactly when the client
\* owns the connection, the connection's Close too, whether or not the first
\* call failed; it returns the connection's failure when that call failed
\* (also when both failed), the cache's failure when only that call failed,
\* and no error when neither failed.
C12_CloseBoth ==
    [][\A c \in Clients :
         (pc[c] = "ready" /\ pc'[c] = "closed") =>
            /\ ret'[c].op = "Close"
            /\ ~cacheOpen'[c]
            /\ "cache" \in conn'[c].tried
            /\ ("cc" \in conn'[c].tried) <=> conn[c].own
            /\ conn'[c].closes = conn[c].closes + (IF conn[c].own THEN 1 ELSE 0)
            /\ conn'[c].failed \subseteq conn'[c].tried
            /\ ret'[c].err = (IF "cc" \in conn'[c].failed THEN "ErrConnClose"
                              ELSE IF "cache" \in conn'[c].failed THEN "ErrClose"
                              ELSE "nil")]_vars

\* closing the cache failed, the connection was closed all the same, and the
\* failure of the cache was returned
C12_Witness ==
    /\ ret["c1"].op = "Close"
    /\ ret["c1"].err = "ErrClose"
    /\ conn["c1"].own
    /\ conn["c1"].tried = {"cache", "cc"}
    /\ conn["c1"].failed = {"cache"}
    /\ conn["c1"].closes = 1

----------------------------------------------------------------------------
(* Properties of the configuration, checked under SpecNorm.                *)

\* C14: for every configuration passed, a missing one standing for the zero
\* value, the client's copy has the owner given or, when that is empty, the
\* freshly generated non-empty identifier; the namespace given; the TTL
\* given or, when that is under one second, 10 minutes; the directory given
\* or, when that is empty, "data".  No step changes the caller's value, and
\* the client's copy is only set by a constructor: Acquire and Close leave
\* it as it is.
C14_Normalized ==
    /\ [](\A c \in Clients :
            opt[c] # NilOpt =>
               LET z == IF given[c] = NilOpt
                        THEN [Owner |-> "", Namespace |-> <<>>, TTL |-> Dur(0, 0),
                              Dir |-> ""]
                        ELSE given[c]
                   short == z.TTL.hi = 0 /\ z.TTL.lo < TicksPerSec
               IN /\ opt[c].Owner = (IF z.Owner = "" THEN NewOwner(c) ELSE z.Owner)
                  /\ opt[c].Owner # ""
                  /\ opt[c].Namespace = z.Namespace
                  /\ opt[c].TTL = (IF short THEN Dur(0, 600 * TicksPerSec) ELSE z.TTL)
                  /\ opt[c].Dir = (IF z.Dir = "" THEN "data" ELSE z.Dir))
    /\ [][/\ given' = given
          /\ \A c \in Clients :
               opt'[c] # opt[c] => (pc[c] = "closed" /\ pc'[c] # "ready")]_vars

\* a client constructed without a configuration returned a Handle and was
\* closed, all defaults in place
C14_Witness ==
    /\ given["c1"] = NilOpt
    /\ opt["c1"] = [Owner |-> "uuid-c1", Namespace |-> <<>>,
                    TTL |-> Dur(0, 600 * TicksPerSec), Dir |-> "data"]
    /\ handles["c1"] # {}
    /\ ret["c1"].op = "Close"

\* C19: the ttl in every Acquire request a client sends is at least 1 and
\* is the client's normalized TTL in whole seconds: the conversion to 32 bits
\* loses nothing.
C19_WireTtl ==
    \A c \in Clients :
       net[c].kind = "acquire" =>
          /\ net[c].req.Ttl >= 1
          /\ DurSeconds(opt[c].TTL) = [hi |-> 0, lo |-> net[c].req.Ttl]

\* a client configured with a TTL of 2^32 seconds was granted a lease with
\* ttl 0 on the wire, a lease that is expired when it is granted
C19_Witness ==
    /\ net["c1"].kind = "acquired"
    /\ opt["c1"].TTL = Dur(1, 0)
    /\ net["c1"].req.Ttl = 0
    /\ net["c1"].res.err = "nil"
    /\ net["c1"].res.Status = "OK"
    /\ \E k \in DOMAIN store : store[k].ID = net["c1"].res.Handle.Id
                               /\ ~IsLive(store[k], now)

\* the wire handle of a backend record
WireHandle(rec) ==
    [Id |-> rec.ID, Name |-> rec.Name, Namespace |-> rec.Namespace,
     ExpTime |-> rec.ExpTime \div TicksPerMs, NumAcquired |-> rec.NumAcquired,
     Metadata |-> rec.Metadata]

IsSuffix(s, t) == Len(s) <= Len(t) /\ SubSeq(t, Len(t) - Len(s) + 1, Len(t)) = s

\* C15: service.List starts with the records the backend has for the
\* request's filter, in the backend's order; every record sent is the wire
\* handle of the next of them, appended to the stream one per step while the
\* rest is still to come; so what is in the stream and what is still to come
\* are together the end of the backend's enumeration, nothing left out,
\* doubled or reordered.  The stream ends normally only when nothing is still
\* to come; it ends with an error at any point, and after either end no
\* record is sent.
C15_ListStream ==
    /\ [](\A c \in Clients :
            net[c].kind = "listing" =>
               LET all == backendList(store, net[c].req.Filter)
                   rest == net[c].todo
               IN /\ IsSuffix(rest, all)
                  /\ IsSuffix(stream[c] \o [i \in 1..Len(rest) |-> WireHandle(rest[i])],
                              [i \in 1..Len(all) |-> WireHandle(all[i])]))
    /\ [][\A c \in Clients :
            /\ (net[c].kind # "listing" /\ net'[c].kind = "listing") =>
                  /\ net[c].kind = "list"
                  /\ net'[c].todo = backendList(store, net[c].req.Filter)
                  /\ stream[c] = <<>> /\ stream'[c] = <<>>
            /\ (Len(stream'[c]) > Len(stream[c])
                \/ (net[c].kind = "listing" /\ net'[c].kind = "listing"
                    /\ net'[c].todo # net[c].todo)) =>
                  /\ net[c].kind = "listing" /\ net'[c].kind = "listing"
                  /\ net[c].todo # <<>>
                  /\ stream'[c] = Append(stream[c], WireHandle(Head(net[c].todo)))
                  /\ net'[c].todo = Tail(net[c].todo)
            /\ (net[c].kind = "listing" /\ net'[c].kind = "eof") =>
                  (net[c].todo = <<>> /\ stream'[c] = stream[c])
            /\ (net[c].kind = "listing" /\ net'[c].kind = "listerr") =>
                  stream'[c] = stream[c]]_vars

\* the stream ended with an error after two of four records were sent, the
\* two first in the backend's order
C15_Witness ==
    /\ net["c1"].kind = "listerr"
    /\ Len(backendList(store, [Prefix |-> NsN, Status |-> "DONE"])) = 4
    /\ Len(stream["c1"]) = 2
    /\ stream["c1"][1].Name = "x" /\ stream["c1"][1].Namespace = NsN
    /\ stream["c1"][2].Name = "y" /\ stream["c1"][2].Namespace = NsN

----------------------------------------------------------------------------
(* Further properties of the service adapter, checked under SpecWire.      *)

\* C16: for a Renew or Done request that passes validation the response is
\* a success exactly when the backend call returned without error, and it is
\* the backend's error otherwise: when no live record with the identifier is
\* owned by the request's owner the caller receives ErrInvalidHandle and no
\* record changes, and a storage failure is received as it is.  On Acquire
\* every backend error other than "already held" and "already done" is
\* received as it is, without status and handle.
C16_ErrorsSurface ==
    /\ [](LET m == net[Wire] IN
          /\ (m.kind \in {"renewed", "doned"} /\ m.called) =>
                /\ m.res.err = m.out
                /\ (m.res.err = "nil") <=> (m.out = "nil")
          /\ (m.kind = "acquired" /\ m.called
              /\ m.out \notin {"nil", "ErrAcquired", "ErrDone"}) =>
                m.res = [err |-> m.out, Status |-> "", Handle |-> NilHandle])
    /\ [][(net[Wire].kind \in {"renew", "done"} /\ net'[Wire] # net[Wire]
           /\ net[Wire].req.Owner # "" /\ Len(net[Wire].req.HandleId) = UUIDLen) =>
            LET req == net[Wire].req
                mine == {k \in DOMAIN store : /\ store[k].ID = req.HandleId
                                              /\ store[k].Owner = req.Owner
                                              /\ ~store[k].Done
                                              /\ store[k].ExpTime > now}
            IN /\ net'[Wire].called
               /\ net'[Wire].res.err \in {"nil", "ErrInvalidHandle", "ErrStorage"}
               /\ mine = {} => net'[Wire].res.err \in {"ErrInvalidHandle", "ErrStorage"}
               /\ net'[Wire].res.err # "nil" => store' = store
               /\ net'[Wire].res.err = "nil" =>
                     \E k \in mine :
                        /\ \A x \in DOMAIN store \ {k} : store'[x] = store[x]
                        /\ net[Wire].kind = "done" => store'[k].Done]_vars

\* a Renew by an owner that does not hold the live lease was answered with
\* the backend's error
C16_Witness ==
    /\ net[Wire].kind = "renewed"
    /\ net[Wire].req.Owner = "A"
    /\ net[Wire].res.err = "ErrInvalidHandle"
    /\ \E k \in DOMAIN store : /\ store[k].ID = net[Wire].req.HandleId
                               /\ store[k].Owner = "Z"
                               /\ IsLive(store[k], now)

----------------------------------------------------------------------------
(* Further properties of the whole system, checked under Spec.             *)

\* C17: at all times, through startup synchronisations, Acquire calls,
\* Close and new constructions, and the other client's Acquire, Renew and
\* Done, every name in a client's cache (and every name staged for it) is
\* the name of a resource completed at the backend in the client's
\* namespace.  So an Acquire that returns ErrDone without a remote call does
\* so for a completed resource, and the server grants a lease only for a
\* resource that is not completed, whether or not the name is in any cache.
C17_CacheSound ==
    /\ [](\A c \in Clients :
            \A n \in cache[c] \cup wb[c].staged : Completed(opt[c].Namespace, n))
    /\ [][\A c \in Clients :
            /\ (pc[c] = "ready" /\ net[c] = Idle /\ net'[c] = Idle
                /\ ret'[c] # ret[c] /\ ret'[c].op = "Acquire"
                /\ ret'[c].err = "ErrDone") =>
                  Completed(opt[c].Namespace, ret'[c].name)
            /\ (net[c].kind = "acquire" /\ net'[c].kind = "acquired"
                /\ net'[c].res.err = "nil" /\ net'[c].res.Status = "OK") =>
                  ~Completed(net[c].req.Namespace, net[c].req.Name)
            /\ (ret'[c] # ret[c] /\ ret'[c].handle # NilHandle) =>
                  (net[c].kind = "acquired" /\ ~net[c].late)]_vars

\* one client has the name from its startup synchronisation, the other from
\* a DONE response, and the resource is completed
C17_Witness ==
    /\ pc["c1"] = "ready" /\ pc["c2"] = "ready"
    /\ base["c1"] = {} /\ "x" \in wb["c1"].staged /\ "x" \in cache["c1"]
    /\ "x" \notin wb["c2"].staged /\ "x" \in cache["c2"]
    /\ Completed(NsN, "x")

\* C18: the requests carry no expiration, only a ttl in seconds.  A record
\* that service.Acquire creates or takes over expires at the server's clock
\* at the moment the call is handled plus ttl whole seconds, and so does a
\* record renewed by service.Renew; service.Done changes no expiration; and
\* a call that the backend refuses changes no record.
C18_ServerSideExpiry ==
    /\ [](net[Wire].kind # "none" => "ExpTime" \notin DOMAIN net[Wire].req)
    /\ [][(net'[Wire] # net[Wire]
           /\ net'[Wire].kind \in {"acquired", "renewed", "doned"}) =>
            LET req == net[Wire].req
                res == net'[Wire].res
                due == now + req.Ttl * MillisPerSec * TicksPerMs
            IN IF res.err # "nil" \/ (net'[Wire].kind = "acquired" /\ res.Status # "OK")
               THEN store' = store
               ELSE IF net'[Wire].kind = "acquired"
               THEN /\ store'[<<req.Namespace, req.Name>>].ExpTime = due
                    /\ res.Handle.ExpTime = due \div TicksPerMs
                    /\ \A k \in DOMAIN store \ {<<req.Namespace, req.Name>>} :
                          store'[k] = store[k]
               ELSE IF net'[Wire].kind = "renewed"
               THEN \A k \in DOMAIN store :
                       IF store[k].ID = req.HandleId
                       THEN store'[k].ExpTime = due
                       ELSE store'[k] = store[k]
               ELSE /\ DOMAIN store' = DOMAIN store
                    /\ \A k \in DOMAIN store : store'[k].ExpTime = store[k].ExpTime]_vars

\* a lease acquired a second after the start was renewed: it expires one
\* second after the server's clock at the renewal
C18_Witness ==
    /\ net[Wire].kind = "renewed"
    /\ net[Wire].res.err = "nil"
    /\ now = StartTick + TicksPerSec
    /\ \E k \in DOMAIN store : /\ store[k].ID = net[Wire].req.HandleId
                               /\ store[k].NumAcquired = 2
                               /\ store[k].ExpTime = now + TicksPerSec

\* C20: every response without error whose status is neither HELD nor DONE
\* that client.Acquire receives has status OK and carries a handle whose
\* identifier has 16 bytes, the identifier of the backend's record; so the
\* construction of the Handle never aborts, and the Handle returned has that
\* identifier.
C20_HandleWellFormed ==
    /\ [](\A c \in Clients :
            /\ ret[c].err # "panic"
            /\ \A h \in handles[c] : Len(h.Id) = UUIDLen)
    /\ [][\A c \in Clients :
            /\ (net[c].kind = "acquire" /\ net'[c].kind = "acquired"
                /\ net'[c].res.err = "nil"
                /\ net'[c].res.Status \notin {"HELD", "DONE"}) =>
                  LET k == <<net[c].req.Namespace, net[c].req.Name>> IN
                  /\ net'[c].res.Status = "OK"
                  /\ net'[c].res.Handle # NilHandle
                  /\ k \in DOMAIN store'
                  /\ net'[c].res.Handle.Id = store'[k].ID
                  /\ Len(net'[c].res.Handle.Id) = UUIDLen
            /\ (net[c].kind = "acquired" /\ net'[c] = Idle
                /\ net[c].res.err = "nil"
                /\ net[c].res.Status \notin {"HELD", "DONE"}) =>
                  /\ net[c].res.Handle # NilHandle
                  /\ Len(net[c].res.Handle.Id) = UUIDLen
                  /\ ret'[c].err = "nil"
                  /\ ret'[c].handle # NilHandle
                  /\ ret'[c].handle.Id = net[c].res.Handle.Id]_vars

\* a client holds two Handles for a resource that was acquired twice, both
\* with the identifier of the backend's record
C20_Witness ==
    /\ <<NsN, "x">> \in DOMAIN store
    /\ store[<<NsN, "x">>].NumAcquired = 2
    /\ ret["c2"].op = "Acquire"
    /\ ret["c2"].handle # NilHandle
    /\ ret["c2"].handle.Id = store[<<NsN, "x">>].ID
    /\ Len(ret["c2"].handle.Id) = UUIDLen
    /\ \E h \in handles["c1"] : h.Id = ret["c2"].handle.Id

====
